---- MODULE Spec2Model ----
(***************************************************************************)
(* Model of homework.py: the fitness-tracker module that turns sensor      *)
(* packages into Training objects (Running, SportsWalking, Swimming),      *)
(* computes distance, mean speed and calories, and prints one message per  *)
(* package.                                                                *)
(*                                                                         *)
(* Numbers.  Python ints and floats are modelled as exact rationals        *)
(* <<n, d>> in lowest terms with d > 0.  IEEE rounding of the binary64     *)
(* operations is not modelled: every arithmetic result is the exact        *)
(* value, and the model's inputs are chosen so that no result is within    *)
(* rounding distance of a formatting tie.                                  *)
(*                                                                         *)
(* Strings.  A str is the sequence of its Unicode code points.            *)
(***************************************************************************)
EXTENDS Integers, Sequences, FiniteSets, TLC

VARIABLES
    packages,      \* __main__: the list of (workout_type, data) pairs
    idx,           \* __main__: number of pairs the for loop has taken
    pc,            \* __main__: position of the script
    training,      \* __main__: global `training`
    info,          \* main(): local `info`
    info_message,  \* main(): local `info_message`
    stdout,        \* lines written by print()
    exc,           \* the exception that ended the script, if any
    objs,          \* call harness: Training objects held by a caller
    objs0,         \* call harness: the objects as constructed
    infos,         \* call harness: InfoMessage last returned per object
    first,         \* call harness: InfoMessage first returned per object
    ret,           \* call harness: the last call and what it returned
    nshow          \* call harness: show_training_info calls per object: 0, 1, 2 = more

mainVars == <<packages, idx, pc, training, info, info_message, stdout, exc>>
callVars == <<objs, objs0, infos, first, ret, nshow>>
vars == <<packages, idx, pc, training, info, info_message, stdout, exc,
          objs, objs0, infos, first, ret, nshow>>

(***************************************************************************)
(* Bounds of the model.                                                    *)
(***************************************************************************)
MaxPackages == 2
NObj == 2

(***************************************************************************)
(* Exact rational arithmetic standing for Python's numeric operators.      *)
(***************************************************************************)
Abs(n) == IF n < 0 THEN -n ELSE n

RECURSIVE Gcd(_, _)
Gcd(a, b) == IF b = 0 THEN a ELSE Gcd(b, a % b)

\* The value of a one-element set.  Operands and call results are bound as
\* v \in {e}, which evaluates e once, where a LET would evaluate it per use.
Val(S) == CHOOSE v \in S : TRUE

\* n/d in lowest terms, denominator positive (d /= 0)
Rat(n, d) ==
    Val({ <<(p[3] * p[1]) \div p[4], (p[3] * p[2]) \div p[4]>> :
          p \in {<<n, d, IF d < 0 THEN -1 ELSE 1, Gcd(Abs(n), Abs(d))>>} })

Num(n) == <<n, 1>>
Zero == <<0, 1>>

RAdd(x, y) == Val({Rat(a[1] * b[2] + b[1] * a[2], a[2] * b[2]) : a \in {x}, b \in {y}})
RSub(x, y) == Val({Rat(a[1] * b[2] - b[1] * a[2], a[2] * b[2]) : a \in {x}, b \in {y}})
RMul(x, y) == Val({Rat(a[1] * b[1], a[2] * b[2]) : a \in {x}, b \in {y}})
\* x / y for y /= 0; the callers raise ZeroDivisionError for y = 0
RDiv(x, y) == Val({Rat(a[1] * b[2], a[2] * b[1]) : a \in {x}, b \in {y}})
\* x // y for y /= 0: the floor of the quotient, as a number
RFloorDiv(x, y) == Val({Num(q[1] \div q[2]) : q \in {RDiv(x, y)}})
\* x ** p for a whole p >= 0 (the only exponent of the program is 2.0)
RECURSIVE RPowN(_, _)
RPowN(x, k) == IF k = 0 THEN Num(1) ELSE RMul(x, RPowN(x, k - 1))
RPow(x, p) == Val({RPowN(a, p[1] \div p[2]) : a \in {x}})

(***************************************************************************)
(* Results of calls: a call returns a value or raises, and leaves the      *)
(* receiver in some state.                                                 *)
(***************************************************************************)
None == [cls |-> "NoneType"]
NoExc == [type |-> "None", arg |-> ""]
Ok(v, self) == [exc |-> NoExc, ret |-> v, self |-> self]
Raise(type, arg, self) == [exc |-> [type |-> type, arg |-> arg], ret |-> None, self |-> self]
Raised(r) == r.exc /= NoExc

(***************************************************************************)
(* str: formatting of numbers and of the message template.                 *)
(***************************************************************************)
\* the decimal digits of n >= 0, as code points
RECURSIVE Digits(_)
Digits(n) == IF n < 10 THEN <<48 + n>> ELSE Append(Digits(n \div 10), 48 + (n % 10))

\* x scaled by 1000 and rounded to the nearest integer, ties to even: |x| only
Round3(x) ==
    LET a == Abs(x[1]) * 1000
        q == a \div x[2]
        r == a % x[2]
    IN  IF 2 * r < x[2] THEN q
        ELSE IF 2 * r > x[2] THEN q + 1
        ELSE IF q % 2 = 0 THEN q ELSE q + 1

\* format(x, '.3f'): sign, integer digits, '.', exactly three fraction digits
FormatF3(x) ==
    LET Str(v, n) ==
            (IF v[1] < 0 THEN <<45>> ELSE <<>>)
            \o Digits(n \div 1000)
            \o <<46, 48 + ((n % 1000) \div 100), 48 + ((n \div 10) % 10), 48 + (n % 10)>>
    IN  Val({Str(v, Round3(v)) : v \in {x}})

\* format(value, spec) for the two specs the template uses
FormatValue(value, spec) == IF spec = ".3f" THEN FormatF3(value) ELSE value

\* Mutant of MESSAGE_TEMPLATE: the speed and distance fields change places.
MESSAGE_TEMPLATE_swapped ==
    << [lit |-> <<1058, 1080, 1087, 32, 1090, 1088, 1077, 1085, 1080, 1088,
                  1086, 1074, 1082, 1080, 58, 32>>,
        field |-> "training_type", spec |-> ""],
       [lit |-> <<59, 32, 1044, 1083, 1080, 1090, 1077, 1083, 1100, 1085,
                  1086, 1089, 1090, 1100, 58, 32>>,
        field |-> "duration", spec |-> ".3f"],
       [lit |-> <<32, 1095, 46, 59, 32, 1044, 1080, 1089, 1090, 1072, 1085,
                  1094, 1080, 1103, 58, 32>>,
        field |-> "speed", spec |-> ".3f"],
       [lit |-> <<32, 1082, 1084, 59, 32, 1057, 1088, 46, 32, 1089, 1082,
                  1086, 1088, 1086, 1089, 1090, 1100, 58, 32>>,
        field |-> "distance", spec |-> ".3f"],
       [lit |-> <<32, 1082, 1084, 47, 1095, 59, 32, 1055, 1086, 1090, 1088,
                  1072, 1095, 1077, 1085, 1086, 32, 1082, 1082, 1072, 1083,
                  58, 32>>,
        field |-> "calories", spec |-> ".3f"],
       [lit |-> <<46>>, field |-> "", spec |-> ""] >>

\* InfoMessage.MESSAGE_TEMPLATE, parsed as str.format parses it:
\* (literal text, field name, format spec) triples
MESSAGE_TEMPLATE ==
    << [lit |-> <<1058, 1080, 1087, 32, 1090, 1088, 1077, 1085, 1080, 1088,
                  1086, 1074, 1082, 1080, 58, 32>>,
        field |-> "training_type", spec |-> ""],
       [lit |-> <<59, 32, 1044, 1083, 1080, 1090, 1077, 1083, 1100, 1085,
                  1086, 1089, 1090, 1100, 58, 32>>,
        field |-> "duration", spec |-> ".3f"],
       [lit |-> <<32, 1095, 46, 59, 32, 1044, 1080, 1089, 1090, 1072, 1085,
                  1094, 1080, 1103, 58, 32>>,
        field |-> "distance", spec |-> ".3f"],
       [lit |-> <<32, 1082, 1084, 59, 32, 1057, 1088, 46, 32, 1089, 1082,
                  1086, 1088, 1086, 1089, 1090, 1100, 58, 32>>,
        field |-> "speed", spec |-> ".3f"],
       [lit |-> <<32, 1082, 1084, 47, 1095, 59, 32, 1055, 1086, 1090, 1088,
                  1072, 1095, 1077, 1085, 1086, 32, 1082, 1082, 1072, 1083,
                  58, 32>>,
        field |-> "calories", spec |-> ".3f"],
       [lit |-> <<46>>, field |-> "", spec |-> ""] >>

\* template.format(**kwargs)
RECURSIVE StrFormat(_, _)
StrFormat(template, kwargs) ==
    IF template = <<>> THEN <<>>
    ELSE LET seg == Head(template)
         IN  seg.lit
             \o (IF seg.field = "" THEN <<>>
                 ELSE FormatValue(kwargs[seg.field], seg.spec))
             \o StrFormat(Tail(template), kwargs)

(***************************************************************************)
(* class InfoMessage (a dataclass)                                         *)
(***************************************************************************)
InfoMessage(training_type, duration, distance, speed, calories) ==
    [training_type |-> training_type, duration |-> duration,
     distance |-> distance, speed |-> speed, calories |-> calories]

\* dataclasses.asdict(self)
asdict(self) == self

InfoMessage_get_message(self) == Ok(StrFormat(MESSAGE_TEMPLATE, asdict(self)), self)

(***************************************************************************)
(* class Training and its subclasses.  An object is a record of its        *)
(* instance attributes plus its class, cls.                                *)
(***************************************************************************)
M_IN_KM == 1000
MIN_IN_HOUR == 60

\* class attribute LEN_STEP, looked up through the class of the object
LEN_STEP(cls) == IF cls = "Swimming" THEN Rat(138, 100) ELSE Rat(65, 100)

\* cls.__name__
ClassName(cls) ==
    CASE cls = "Running" -> <<82, 117, 110, 110, 105, 110, 103>>
      [] cls = "SportsWalking" ->
             <<83, 112, 111, 114, 116, 115, 87, 97, 108, 107, 105, 110, 103>>
      [] cls = "Swimming" -> <<83, 119, 105, 109, 109, 105, 110, 103>>
      [] OTHER -> <<84, 114, 97, 105, 110, 105, 110, 103>>

Training_init(cls, action, duration, weight) ==
    [cls |-> cls, action |-> action, duration |-> duration, weight |-> weight]

SportsWalking_init(cls, action, duration, weight, height) ==
    [cls |-> cls, action |-> action, duration |-> duration, weight |-> weight,
     height |-> height]

Swimming_init(cls, action, duration, weight, length_pool, count_pool) ==
    [cls |-> cls, action |-> action, duration |-> duration, weight |-> weight,
     length_pool |-> length_pool, count_pool |-> count_pool]

Training_get_distance(self) ==
    Ok(RDiv(RMul(self.action, LEN_STEP(self.cls)), Num(M_IN_KM)), self)

\* no subclass overrides get_distance
get_distance(self) == Training_get_distance(self)

Training_get_mean_speed(self) ==
    LET Body(d) ==
            LET s == d.self
                distance == d.ret
            IN  IF s.duration = Zero
                THEN Raise("ZeroDivisionError", "", s)
                ELSE Ok(RDiv(distance, s.duration), s)
    IN  Val({Body(d) : d \in {get_distance(self)}})

Swimming_get_mean_speed(self) ==
    LET total_length == RMul(self.length_pool, self.count_pool)
    IN  IF self.duration = Zero
        THEN Raise("ZeroDivisionError", "", self)
        ELSE Ok(RDiv(RDiv(total_length, Num(M_IN_KM)), self.duration), self)

\* Mutant of get_mean_speed: Swimming's override is not found.
get_mean_speed_base(self) == Training_get_mean_speed(self)

\* method resolution: Swimming overrides get_mean_speed
get_mean_speed(self) ==
    IF self.cls = "Swimming" THEN Swimming_get_mean_speed(self)
    ELSE Training_get_mean_speed(self)

Training_get_spent_calories(self) == Raise("NotImplementedError", "", self)

\* Mutant of Running_get_spent_calories: the duration is left in hours.
Running_get_spent_calories_hours(self) ==
    LET Body(m) ==
            LET s == m.self
                calories_per_kilo == RSub(RMul(Num(18), m.ret), Num(20))
            IN  IF Raised(m) THEN m
                ELSE Ok(RMul(RDiv(RMul(calories_per_kilo, s.weight), Num(M_IN_KM)),
                             s.duration), s)
    IN  Val({Body(m) : m \in {get_mean_speed(self)}})

Running_get_spent_calories(self) ==
    LET coeff_cal_1 == Num(18)
        coeff_cal_2 == Num(20)
        Body(m) ==
            LET s == m.self
                mean_speed == m.ret
                minutes == RMul(s.duration, Num(MIN_IN_HOUR))
                calories_per_kilo ==
                    RSub(RMul(coeff_cal_1, mean_speed), coeff_cal_2)
            IN  IF Raised(m) THEN m
                ELSE Ok(RMul(RDiv(RMul(calories_per_kilo, s.weight), Num(M_IN_KM)),
                             minutes), s)
    IN  Val({Body(m) : m \in {get_mean_speed(self)}})

\* Mutant of SportsWalking_get_spent_calories: / in place of //.
SportsWalking_get_spent_calories_truediv(self) ==
    LET minutes == RMul(self.duration, Num(MIN_IN_HOUR))
        Body(m) ==
            LET s == m.self
                speed_to_height == RDiv(RPow(m.ret, Num(2)), s.height)
                cal_by_kilo ==
                    RAdd(Rat(35, 1000), RMul(speed_to_height, Rat(29, 1000)))
            IN  IF Raised(m) THEN m
                ELSE IF s.height = Zero THEN Raise("ZeroDivisionError", "", s)
                ELSE Ok(RMul(RMul(s.weight, cal_by_kilo), minutes), s)
    IN  Val({Body(m) : m \in {get_mean_speed(self)}})

SportsWalking_get_spent_calories(self) ==
    LET coeff_1 == Rat(35, 1000)
        coeff_2 == Rat(29, 1000)
        speed_pow == Num(2)
        minutes == RMul(self.duration, Num(MIN_IN_HOUR))
        Body(m) ==
            LET s == m.self
                mean_speed == m.ret
                speed_to_height ==
                    RFloorDiv(RPow(mean_speed, speed_pow), s.height)
                cal_by_kilo == RAdd(coeff_1, RMul(speed_to_height, coeff_2))
                by_minutes == RMul(s.weight, cal_by_kilo)
            IN  IF Raised(m) THEN m
                ELSE IF s.height = Zero THEN Raise("ZeroDivisionError", "", s)
                ELSE Ok(RMul(by_minutes, minutes), s)
    IN  Val({Body(m) : m \in {get_mean_speed(self)}})

Swimming_get_spent_calories(self) ==
    LET ADD_COEFF == Rat(11, 10)
        SPEED_COEFF == Num(2)
        Body(m) ==
            LET s == m.self
                mean_speed == m.ret
            IN  IF Raised(m) THEN m
                ELSE Ok(RMul(RMul(RAdd(mean_speed, ADD_COEFF), SPEED_COEFF),
                             s.weight), s)
    IN  Val({Body(m) : m \in {get_mean_speed(self)}})

\* Mutant of get_spent_calories: SportsWalking's override is not found.
get_spent_calories_no_walking(self) ==
    CASE self.cls = "Running" -> Running_get_spent_calories(self)
      [] self.cls = "Swimming" -> Swimming_get_spent_calories(self)
      [] OTHER -> Training_get_spent_calories(self)

\* method resolution: every subclass overrides get_spent_calories
get_spent_calories(self) ==
    CASE self.cls = "Running" -> Running_get_spent_calories(self)
      [] self.cls = "SportsWalking" -> SportsWalking_get_spent_calories(self)
      [] self.cls = "Swimming" -> Swimming_get_spent_calories(self)
      [] OTHER -> Training_get_spent_calories(self)

\* Mutant of show_training_info: the duration is converted to minutes in
\* place, on the object.
show_training_info_in_place(self) ==
    LET Result(d, m, c) ==
            IF Raised(c) THEN c
            ELSE Ok(InfoMessage(ClassName(self.cls), self.duration, d.ret, m.ret, c.ret),
                    [c.self EXCEPT !.duration = RMul(@, Num(MIN_IN_HOUR))])
        Speed(d, m) ==
            IF Raised(m) THEN m
            ELSE Val({Result(d, m, c) : c \in {get_spent_calories(m.self)}})
    IN  Val({Val({Speed(d, m) : m \in {get_mean_speed(d.self)}}) :
             d \in {get_distance(self)}})

show_training_info(self) ==
    LET training_type == ClassName(self.cls)
        duration == self.duration
        Calories(d, m, c) ==
            IF Raised(c) THEN c
            ELSE Ok(InfoMessage(training_type, duration, d.ret, m.ret, c.ret),
                    c.self)
        Speed(d, m) ==
            IF Raised(m) THEN m
            ELSE Val({Calories(d, m, c) : c \in {get_spent_calories(m.self)}})
        Distance(d) ==
            IF Raised(d) THEN d
            ELSE Val({Speed(d, m) : m \in {get_mean_speed(d.self)}})
    IN  Val({Distance(d) : d \in {get_distance(self)}})

(***************************************************************************)
(* read_package                                                            *)
(***************************************************************************)
traning_classes_map ==
    [SWM |-> "Swimming", RUN |-> "Running", WLK |-> "SportsWalking"]

\* the number of positional parameters of cls.__init__ besides self
Arity(cls) ==
    CASE cls = "Swimming" -> 5
      [] cls = "SportsWalking" -> 4
      [] OTHER -> 3

\* Mutant of Construct: surplus values are dropped instead of refused.
Construct_truncating(cls, data) ==
    IF Len(data) < Arity(cls) THEN Raise("TypeError", "", None)
    ELSE CASE cls = "Swimming" ->
                  Ok(Swimming_init(cls, data[1], data[2], data[3], data[4], data[5]), None)
           [] cls = "SportsWalking" ->
                  Ok(SportsWalking_init(cls, data[1], data[2], data[3], data[4]), None)
           [] OTHER ->
                  Ok(Training_init(cls, data[1], data[2], data[3]), None)

\* traning_class(*data)
Construct(cls, data) ==
    IF Len(data) /= Arity(cls) THEN Raise("TypeError", "", None)
    ELSE CASE cls = "Swimming" ->
                  Ok(Swimming_init(cls, data[1], data[2], data[3], data[4], data[5]), None)
           [] cls = "SportsWalking" ->
                  Ok(SportsWalking_init(cls, data[1], data[2], data[3], data[4]), None)
           [] OTHER ->
                  Ok(Training_init(cls, data[1], data[2], data[3]), None)

\* Mutant of read_package: an unknown code silently falls back to Running.
read_package_default(workout_type, data) ==
    IF workout_type \notin DOMAIN traning_classes_map
    THEN Construct("Running", data)
    ELSE Construct(traning_classes_map[workout_type], data)

read_package(workout_type, data) ==
    IF workout_type \notin DOMAIN traning_classes_map
    THEN Raise("KeyError", workout_type, None)
    ELSE Construct(traning_classes_map[workout_type], data)

(***************************************************************************)
(* Inputs: the packages a run may be given.                                *)
(***************************************************************************)
RunData ==
    { <<Num(15000), Num(1), Num(75)>>,            \* the script's RUN package
      <<Num(9000), Rat(1, 2), Num(80)>>,
      <<Num(15000), Zero, Num(75)>>,              \* zero duration
      <<Num(15000), Num(-1), Num(75)>>,           \* negative duration
      <<Num(15000), Num(1)>>,                     \* too short
      <<Num(9000), Num(1), Num(75), Num(180)>> }  \* too long

WalkData ==
    { <<Num(9000), Num(1), Num(75), Num(180)>>,   \* the script's WLK package
      <<Num(15000), Rat(1, 2), Num(75), Num(30)>>,
      <<Num(9000), Zero, Num(75), Num(180)>>,
      <<Num(9000), Num(-1), Num(75), Num(180)>>,
      <<Num(9000), Num(1), Num(75), Zero>>,       \* zero height
      <<Num(15000), Num(1), Num(75)>> }           \* too short

SwimData ==
    { <<Num(720), Num(1), Num(80), Num(25), Num(40)>>,   \* the script's SWM package
      <<Num(1000), Num(1), Num(80), Num(25), Num(40)>>,  \* another action only
      <<Num(720), Rat(1, 2), Num(75), Num(50), Num(30)>>,
      <<Num(720), Zero, Num(80), Num(25), Num(40)>>,
      <<Num(720), Num(-1), Num(80), Num(25), Num(40)>>,
      <<Num(9000), Num(1), Num(75), Num(180)>> }         \* too short

UnknownCodes == {"XYZ", "run"}

Packages ==
    {<<"RUN", d>> : d \in RunData}
    \cup {<<"WLK", d>> : d \in WalkData}
    \cup {<<"SWM", d>> : d \in SwimData}
    \cup {<<c, <<Num(15000), Num(1), Num(75)>>>> : c \in UnknownCodes}

\* the packages a caller of the module builds its objects from
CallerPackages ==
    { <<"SWM", <<Num(720), Num(1), Num(80), Num(25), Num(40)>>>>,
      <<"RUN", <<Num(15000), Num(1), Num(75)>>>>,
      <<"WLK", <<Num(9000), Num(1), Num(75), Num(180)>>>>,
      <<"WLK", <<Num(15000), Rat(1, 2), Num(75), Num(30)>>>>,
      <<"RUN", <<Num(15000), Zero, Num(75)>>>>,
      <<"SWM", <<Num(720), Num(-1), Num(80), Num(25), Num(40)>>>>,
      <<"WLK", <<Num(9000), Num(1), Num(75), Zero>>>> }

\* the Training objects read_package builds from them
Objects == {read_package(p[1], p[2]).ret : p \in CallerPackages}

(***************************************************************************)
(* The script: for workout_type, data in packages:                         *)
(*                 training = read_package(workout_type, data)             *)
(*                 main(training)                                          *)
(* An exception that nothing catches ends the script.                      *)
(***************************************************************************)
NoMessage == <<>>
NoCall == [method |-> "", obj |-> 0, exc |-> NoExc, value |-> None]

Init ==
    /\ packages \in UNION {[1..n -> Packages] : n \in 0..MaxPackages}
    /\ idx = 0
    /\ pc = "for"
    /\ training = None
    /\ info = None
    /\ info_message = NoMessage
    /\ stdout = <<>>
    /\ exc = NoExc
    /\ objs = <<>>
    /\ objs0 = <<>>
    /\ infos = <<>>
    /\ first = <<>>
    /\ ret = NoCall
    /\ nshow = <<>>

workout_type == packages[idx][1]
data == packages[idx][2]

\* the for statement takes the next pair
ForNext ==
    /\ pc = "for"
    /\ idx < Len(packages)
    /\ idx' = idx + 1
    /\ pc' = "read_package"
    /\ UNCHANGED <<packages, training, info, info_message, stdout, exc>>
    /\ UNCHANGED callVars

\* the for statement finds the list exhausted
ForEnd ==
    /\ pc = "for"
    /\ idx = Len(packages)
    /\ pc' = "done"
    /\ UNCHANGED <<packages, idx, training, info, info_message, stdout, exc>>
    /\ UNCHANGED callVars

\* training = read_package(workout_type, data)
ReadPackage ==
    /\ pc = "read_package"
    /\ \E r \in {read_package(workout_type, data)} :
           IF Raised(r)
           THEN /\ pc' = "raised"
                /\ exc' = r.exc
                /\ UNCHANGED training
           ELSE /\ pc' = "show_training_info"
                /\ training' = r.ret
                /\ UNCHANGED exc
    /\ UNCHANGED <<packages, idx, info, info_message, stdout>>
    /\ UNCHANGED callVars

\* main: info = training.show_training_info()
ShowTrainingInfo ==
    /\ pc = "show_training_info"
    /\ \E r \in {show_training_info(training)} :
           /\ training' = r.self
           /\ IF Raised(r)
              THEN /\ pc' = "raised"
                   /\ exc' = r.exc
                   /\ UNCHANGED info
              ELSE /\ pc' = "get_message"
                   /\ info' = r.ret
                   /\ UNCHANGED exc
    /\ UNCHANGED <<packages, idx, info_message, stdout>>
    /\ UNCHANGED callVars

\* main: info_message = info.get_message()
GetMessage ==
    /\ pc = "get_message"
    /\ \E r \in {InfoMessage_get_message(info)} :
           /\ info' = r.self
           /\ info_message' = r.ret
    /\ pc' = "print"
    /\ UNCHANGED <<packages, idx, training, stdout, exc>>
    /\ UNCHANGED callVars

\* Mutant of PrintMessage: the new line goes before the earlier ones.
PrintMessage_prepend ==
    /\ pc = "print"
    /\ stdout' = <<info_message>> \o stdout
    /\ info' = None
    /\ info_message' = NoMessage
    /\ pc' = "for"
    /\ UNCHANGED <<packages, idx, training, exc>>
    /\ UNCHANGED callVars

\* main: print(info_message), and main returns
PrintMessage ==
    /\ pc = "print"
    /\ stdout' = Append(stdout, info_message)
    /\ info' = None
    /\ info_message' = NoMessage
    /\ pc' = "for"
    /\ UNCHANGED <<packages, idx, training, exc>>
    /\ UNCHANGED callVars

Next ==
    \/ ForNext
    \/ ForEnd
    \/ ReadPackage
    \/ ShowTrainingInfo
    \/ GetMessage
    \/ PrintMessage

Spec == Init /\ [][Next]_vars

(***************************************************************************)
(* The module imported by a caller that holds NObj Training objects and    *)
(* calls their methods in any order, any number of times.                  *)
(***************************************************************************)
InitCalls ==
    /\ packages = <<>>
    /\ idx = 0
    /\ pc = "imported"
    /\ training = None
    /\ info = None
    /\ info_message = NoMessage
    /\ stdout = <<>>
    /\ exc = NoExc
    /\ objs \in [1..NObj -> Objects]
    /\ objs0 = objs
    /\ infos = [i \in 1..NObj |-> None]
    /\ first = [i \in 1..NObj |-> None]
    /\ ret = NoCall
    /\ nshow = [i \in 1..NObj |-> 0]

\* what the caller sees of a call on object i
Called(method, i, r) ==
    [method |-> method, obj |-> i, exc |-> r.exc, value |-> r.ret]

CallGetDistance(i) ==
    /\ \E r \in {get_distance(objs[i])} :
           /\ objs' = [objs EXCEPT ![i] = r.self]
           /\ ret' = Called("get_distance", i, r)
    /\ UNCHANGED <<objs0, infos, first, nshow>>
    /\ UNCHANGED mainVars

CallGetMeanSpeed(i) ==
    /\ \E r \in {get_mean_speed(objs[i])} :
           /\ objs' = [objs EXCEPT ![i] = r.self]
           /\ ret' = Called("get_mean_speed", i, r)
    /\ UNCHANGED <<objs0, infos, first, nshow>>
    /\ UNCHANGED mainVars

CallGetSpentCalories(i) ==
    /\ \E r \in {get_spent_calories(objs[i])} :
           /\ objs' = [objs EXCEPT ![i] = r.self]
           /\ ret' = Called("get_spent_calories", i, r)
    /\ UNCHANGED <<objs0, infos, first, nshow>>
    /\ UNCHANGED mainVars

CallShowTrainingInfo(i) ==
    /\ \E r \in {show_training_info(objs[i])} :
           /\ objs' = [objs EXCEPT ![i] = r.self]
           /\ ret' = Called("show_training_info", i, r)
           /\ IF Raised(r)
              THEN UNCHANGED <<infos, first>>
              ELSE /\ infos' = [infos EXCEPT ![i] = r.ret]
                   /\ first' = IF first[i] = None
                               THEN [first EXCEPT ![i] = r.ret]
                               ELSE first
    /\ nshow' = [nshow EXCEPT ![i] = IF @ < 2 THEN @ + 1 ELSE @]
    /\ UNCHANGED objs0
    /\ UNCHANGED mainVars

CallGetMessage(i) ==
    /\ infos[i] /= None
    /\ \E r \in {InfoMessage_get_message(infos[i])} :
           /\ infos' = [infos EXCEPT ![i] = r.self]
           /\ ret' = Called("get_message", i, r)
    /\ UNCHANGED <<objs, objs0, first, nshow>>
    /\ UNCHANGED mainVars

NextCalls ==
    \E i \in 1..NObj :
        \/ CallGetDistance(i)
        \/ CallGetMeanSpeed(i)
        \/ CallGetSpentCalories(i)
        \/ CallShowTrainingInfo(i)
        \/ CallGetMessage(i)

SpecCalls == InitCalls /\ [][NextCalls]_vars

(***************************************************************************)
(* Properties.                                                             *)
(***************************************************************************)
KnownCodes == {"SWM", "RUN", "WLK"}

\* the number of values each code's reading carries
ReadingArity(code) ==
    CASE code = "RUN" -> 3
      [] code = "WLK" -> 4
      [] code = "SWM" -> 5

IsPositive(x) == x[1] > 0

\* x < y
RLess(x, y) == x[1] * y[2] < y[1] * x[2]

\* the script has taken a pair and is past read_package for it
Started == idx >= 1

\* C1: a reading whose duration is zero or negative is rejected: no
\* InfoMessage is produced for it and no line is printed for it.
C1_NonPositiveDurationRejected ==
    (Started /\ Len(data) >= 2 /\ ~IsPositive(data[2]))
        => /\ pc \in {"read_package", "show_training_info", "raised"}
           /\ info = None
           /\ info_message = NoMessage
           /\ Len(stdout) < idx

\* C2 (as the code has it): read_package on a code other than SWM, RUN, WLK
\* raises KeyError naming the code; the step binds no Training object,
\* produces no InfoMessage, prints nothing, and the script ends there.
C2_UnknownCodeKeyError ==
    [][ /\ (pc = "read_package" /\ workout_type \notin KnownCodes)
            => /\ pc' = "raised"
               /\ exc' = [type |-> "KeyError", arg |-> workout_type]
               /\ training' = training
               /\ info' = None
               /\ info_message' = NoMessage
               /\ stdout' = stdout
        /\ pc /= "raised" ]_vars

\* C2 as stated: the error is UnknownActivityType.
C2_UnknownActivityType ==
    [][ (pc = "read_package" /\ workout_type \notin KnownCodes)
            => /\ pc' = "raised"
               /\ exc'.type = "UnknownActivityType"
               /\ training' = training
               /\ info' = None
               /\ stdout' = stdout ]_vars

\* C2 witness: the second pair has an unknown code; the script has ended with
\* KeyError, and the only Training object is the first pair's.
C2_Witness ==
    /\ pc = "raised"
    /\ idx = 2
    /\ workout_type = "XYZ"
    /\ exc = [type |-> "KeyError", arg |-> "XYZ"]
    /\ training /= None
    /\ Len(stdout) = 1

\* C3 (as the code has it): read_package on a known code with a data list
\* shorter or longer than the variant's arity raises TypeError; the step
\* binds no Training object, produces no InfoMessage and prints nothing, and
\* the script ends there.
C3_WrongArityTypeError ==
    [][ /\ (/\ pc = "read_package"
            /\ workout_type \in KnownCodes
            /\ Len(data) /= ReadingArity(workout_type))
            => /\ pc' = "raised"
               /\ exc'.type = "TypeError"
               /\ training' = training
               /\ info' = None
               /\ info_message' = NoMessage
               /\ stdout' = stdout
        /\ pc /= "raised" ]_vars

\* C3 as stated: the error is InvalidReadingData.
C3_InvalidReadingData ==
    [][ (/\ pc = "read_package"
         /\ workout_type \in KnownCodes
         /\ Len(data) /= ReadingArity(workout_type))
            => /\ pc' = "raised"
               /\ exc'.type = "InvalidReadingData"
               /\ training' = training
               /\ info' = None
               /\ stdout' = stdout ]_vars

\* C3 witness: the second pair is a RUN reading with four values; the script
\* has ended with TypeError and the only Training object is the first pair's.
C3_Witness ==
    /\ pc = "raised"
    /\ idx = 2
    /\ workout_type = "RUN"
    /\ Len(data) = 4
    /\ exc.type = "TypeError"
    /\ training /= None
    /\ Len(stdout) = 1

\* show_training_info has returned for the current pair
Shown == Started /\ pc \in {"get_message", "print"}

\* other action counts a swimming reading could carry
AltActions == {Num(0), Num(1000), Num(9000)}
\* other pool lengths and lap counts
AltPools == {Num(0), Num(50), Num(33)}

\* C4: for a swimming reading with duration > 0 the result's speed is
\* length_pool * count_pool / 1000 / duration, its distance is
\* action * 1.38 / 1000 and its calories are (speed + 1.1) * 2 * weight;
\* speed and calories do not change with action, distance does not change
\* with length_pool or count_pool; the script's SWM reading gives speed 1.0
\* and calories 336.0.
C4_SwimmingFormulas ==
    (Shown /\ workout_type = "SWM" /\ IsPositive(data[2]))
        => LET action == data[1]
               duration == data[2]
               weight == data[3]
               length_pool == data[4]
               count_pool == data[5]
               speed == RDiv(RDiv(RMul(length_pool, count_pool), Num(1000)), duration)
           IN  /\ info.speed = speed
               /\ info.distance = RDiv(RMul(action, Rat(138, 100)), Num(1000))
               /\ info.calories = RMul(RMul(RAdd(speed, Rat(11, 10)), Num(2)), weight)
               /\ \A a \in AltActions :
                     \E r \in {show_training_info([training EXCEPT !.action = a])} :
                         /\ r.ret.speed = info.speed
                         /\ r.ret.calories = info.calories
               /\ \A l \in AltPools, c \in AltPools :
                     \E r \in {show_training_info(
                                 [training EXCEPT !.length_pool = l, !.count_pool = c])} :
                         r.ret.distance = info.distance
               /\ data = <<Num(720), Num(1), Num(80), Num(25), Num(40)>>
                     => info.speed = Num(1) /\ info.calories = Num(336)

\* C4 witness: the result of the script's SWM reading exists, and its distance
\* 0.9936 differs from its speed 1.0.
C4_Witness ==
    /\ Shown
    /\ workout_type = "SWM"
    /\ data = <<Num(720), Num(1), Num(80), Num(25), Num(40)>>
    /\ info.speed = Num(1)
    /\ info.distance = Rat(9936, 10000)

\* the largest quotient speed^2 // height looked for
MaxQuotient == 20

\* C5: for a walking reading with duration > 0 and height > 0 the calories are
\* (0.035 * weight + floor(speed^2 / height) * 0.029 * weight) * duration * 60
\* with speed = action * 0.65 / 1000 / duration, the quotient floored; when
\* speed^2 < height they are 0.035 * weight * duration * 60; the script's WLK
\* reading gives 157.5.
C5_WalkingFloorDivision ==
    (Shown /\ workout_type = "WLK" /\ IsPositive(data[2]) /\ IsPositive(data[4]))
        => LET action == data[1]
               duration == data[2]
               weight == data[3]
               height == data[4]
               speed == RDiv(RDiv(RMul(action, Rat(65, 100)), Num(1000)), duration)
               square == RMul(speed, speed)
               minutes == RMul(duration, Num(60))
               Calories(k) ==
                   RMul(RAdd(RMul(Rat(35, 1000), weight),
                             RMul(RMul(Num(k), Rat(29, 1000)), weight)),
                        minutes)
           IN  /\ \E k \in 0..MaxQuotient :
                     \* k is the floor of speed^2 / height
                     /\ ~RLess(square, RMul(Num(k), height))
                     /\ RLess(square, RMul(Num(k + 1), height))
                     /\ info.calories = Calories(k)
               /\ RLess(square, height)
                     => info.calories = RMul(RMul(Rat(35, 1000), weight), minutes)
               /\ data = <<Num(9000), Num(1), Num(75), Num(180)>>
                     => info.calories = Rat(1575, 10)

\* C5 witness: a walking result whose floored quotient is 12 while the true
\* quotient is 12.675 (speed 19.5, height 30).
C5_Witness ==
    /\ Shown
    /\ workout_type = "WLK"
    /\ data = <<Num(15000), Rat(1, 2), Num(75), Num(30)>>
    /\ info.speed = Rat(195, 10)
    /\ info.calories = Rat(86175, 100)

\* the running formulas of C6, without the example
RunningFormulas ==
    LET action == data[1]
        duration == data[2]
        weight == data[3]
        distance == RDiv(RMul(action, Rat(65, 100)), Num(1000))
        speed == RDiv(distance, duration)
    IN  /\ info.distance = distance
        /\ info.speed = speed
        /\ info.calories =
               RMul(RDiv(RMul(RSub(RMul(Num(18), speed), Num(20)), weight), Num(1000)),
                    RMul(duration, Num(60)))

ScriptRunData == <<Num(15000), Num(1), Num(75)>>

\* C6 (amended): for a running reading with duration > 0, distance is
\* action * 0.65 / 1000, speed is distance / duration and calories are
\* (18 * speed - 20) * weight / 1000 * duration * 60; for action=15000,
\* duration=1, weight=75 that is distance 9.75, speed 9.75, calories 699.75.
C6_RunningFormulas ==
    (Shown /\ workout_type = "RUN" /\ IsPositive(data[2]))
        => /\ RunningFormulas
           /\ data = ScriptRunData
                 => /\ info.distance = Rat(975, 100)
                    /\ info.speed = Rat(975, 100)
                    /\ info.calories = Rat(69975, 100)

\* C6 as stated: the same with calories 700.65 for the example.
C6_RunningExample70065 ==
    (Shown /\ workout_type = "RUN" /\ IsPositive(data[2]))
        => /\ RunningFormulas
           /\ data = ScriptRunData
                 => /\ info.distance = Rat(975, 100)
                    /\ info.speed = Rat(975, 100)
                    /\ info.calories = Rat(70065, 100)

\* C6 witness: the result of the script's RUN reading exists.
C6_Witness ==
    /\ Shown
    /\ workout_type = "RUN"
    /\ data = ScriptRunData
    /\ info.calories = Rat(69975, 100)

\* the pair is a known code with as many values as its variant takes
Matching == workout_type \in KnownCodes /\ Len(data) = ReadingArity(workout_type)

\* the values of the pair are in the domain of the formulas
InDomain == data[2] /= Zero /\ (workout_type = "WLK" => data[4] /= Zero)

Valid(p) ==
    /\ p[1] \in KnownCodes
    /\ Len(p[2]) = ReadingArity(p[1])
    /\ IsPositive(p[2][2])
    /\ p[1] = "WLK" => IsPositive(p[2][4])

AllValid == \A k \in 1..Len(packages) : Valid(packages[k])

\* the message of one pair: read_package, show_training_info, get_message
MessageOf(p) ==
    InfoMessage_get_message(
        show_training_info(read_package(p[1], p[2]).ret).ret).ret

\* C8: when every pair is valid the script never raises, the lines printed so
\* far are the messages of the first pairs in input order, one per pair, and
\* at the end there is exactly one line per pair.
C8_OneLinePerPairInOrder ==
    AllValid
        => /\ pc /= "raised"
           /\ Len(stdout) = IF pc \in {"for", "done"} THEN idx
                            ELSE IF idx = 0 THEN 0 ELSE idx - 1
           /\ \A k \in 1..Len(stdout) : stdout[k] = MessageOf(packages[k])
           /\ pc = "done" => Len(stdout) = Len(packages)

\* C8 witness: two different valid pairs have been printed, in input order.
C8_Witness ==
    /\ pc = "done"
    /\ AllValid
    /\ Len(packages) = 2
    /\ packages[1][1] = "SWM"
    /\ packages[2][1] = "RUN"
    /\ Len(stdout) = 2
    /\ stdout[1] /= stdout[2]
    /\ stdout[2] = MessageOf(packages[2])

\* the value of a sequence of decimal digits (code points)
RECURSIVE DecimalValue(_)
DecimalValue(str) ==
    IF str = <<>> THEN 0
    ELSE 10 * DecimalValue(SubSeq(str, 1, Len(str) - 1)) + (str[Len(str)] - 48)

\* str is x written with exactly three fraction digits: an optional '-',
\* integer digits without a leading zero, '.', three digits, and the number
\* written is within half a thousandth of x
IsF3(str, x) ==
    LET body == IF x[1] < 0 THEN Tail(str) ELSE str
        n == Len(body)
        whole == SubSeq(body, 1, n - 4)
        frac == SubSeq(body, n - 2, n)
        written == DecimalValue(whole \o frac)
    IN  /\ x[1] < 0 => Len(str) > 0 /\ str[1] = 45
        /\ n >= 5
        /\ body[n - 3] = 46
        /\ \A i \in 1..Len(whole) : whole[i] \in 48..57
        /\ \A i \in 1..3 : frac[i] \in 48..57
        /\ Len(whole) > 1 => whole[1] /= 48
        /\ 2 * Abs(Abs(x[1]) * 1000 - written * x[2]) <= x[2]

\* the message with the given literal texts around the record's fields
Layout(lits, record) ==
    lits[1] \o record.training_type
    \o lits[2] \o FormatF3(record.duration)
    \o lits[3] \o FormatF3(record.distance)
    \o lits[4] \o FormatF3(record.speed)
    \o lits[5] \o FormatF3(record.calories)
    \o lits[6]

\* 'Тип тренировки: ', '; Длительность: ', ' ч.; Дистанция: ',
\* ' км; Ср. скорость: ', ' км/ч; Потрачено ккал: ', '.'
RussianLiterals ==
    << <<1058, 1080, 1087, 32, 1090, 1088, 1077, 1085, 1080, 1088, 1086, 1074,
         1082, 1080, 58, 32>>,
       <<59, 32, 1044, 1083, 1080, 1090, 1077, 1083, 1100, 1085, 1086, 1089,
         1090, 1100, 58, 32>>,
       <<32, 1095, 46, 59, 32, 1044, 1080, 1089, 1090, 1072, 1085, 1094, 1080,
         1103, 58, 32>>,
       <<32, 1082, 1084, 59, 32, 1057, 1088, 46, 32, 1089, 1082, 1086, 1088,
         1086, 1089, 1090, 1100, 58, 32>>,
       <<32, 1082, 1084, 47, 1095, 59, 32, 1055, 1086, 1090, 1088, 1072, 1095,
         1077, 1085, 1086, 32, 1082, 1082, 1072, 1083, 58, 32>>,
       <<46>> >>

\* 'Activity: ', '; Duration: ', ' h; Distance: ', ' km; Mean speed: ',
\* ' km/h; Calories burned: ', '.'
EnglishLiterals ==
    << <<65, 99, 116, 105, 118, 105, 116, 121, 58, 32>>,
       <<59, 32, 68, 117, 114, 97, 116, 105, 111, 110, 58, 32>>,
       <<32, 104, 59, 32, 68, 105, 115, 116, 97, 110, 99, 101, 58, 32>>,
       <<32, 107, 109, 59, 32, 77, 101, 97, 110, 32, 115, 112, 101, 101, 100,
         58, 32>>,
       <<32, 107, 109, 47, 104, 59, 32, 67, 97, 108, 111, 114, 105, 101, 115,
         32, 98, 117, 114, 110, 101, 100, 58, 32>>,
       <<46>> >>

\* every numeric field of the record is written with three fraction digits
FieldsF3(record) ==
    \A f \in {"duration", "distance", "speed", "calories"} :
        IsF3(FormatF3(record[f]), record[f])

\* C9 (amended): get_message returns the record's label followed by exactly
\* four numeric fields in the order duration, distance, speed, calories, each
\* with exactly 3 fraction digits, in the layout 'Тип тренировки: {type};
\* Длительность: {duration:.3f} ч.; Дистанция: {distance:.3f} км;
\* Ср. скорость: {speed:.3f} км/ч; Потрачено ккал: {calories:.3f}.'
C9_RussianTemplate ==
    pc = "print"
        => /\ info_message = Layout(RussianLiterals, info)
           /\ FieldsF3(info)

\* C9 as stated: the layout is 'Activity: {type}; Duration: {duration:.3f} h;
\* Distance: {distance:.3f} km; Mean speed: {speed:.3f} km/h;
\* Calories burned: {calories:.3f}.'
C9_EnglishTemplate ==
    pc = "print"
        => /\ info_message = Layout(EnglishLiterals, info)
           /\ FieldsF3(info)

\* C9 witness: a message whose speed 11.700 and distance 5.850 differ and whose
\* calories 457.440 have a fraction part is about to be printed.
C9_Witness ==
    /\ pc = "print"
    /\ info.speed = Rat(117, 10)
    /\ info.distance = Rat(585, 100)
    /\ FormatF3(info.calories) = <<52, 53, 55, 46, 52, 52, 48>>
    /\ Len(info_message) > 0

\* C10: no method call changes a field of a Training object or of an
\* InfoMessage, and every show_training_info call on an object returns the
\* result its first call returned, whatever was called on the other objects
\* in between.
C10_CallsChangeNothing ==
    /\ objs = objs0
    /\ \A i \in DOMAIN objs :
          /\ infos[i] = first[i]
          /\ first[i] /= None
                => \E r \in {show_training_info(objs0[i])} : first[i] = r.ret
    /\ (ret.method = "show_training_info" /\ ret.exc = NoExc)
          => ret.value = first[ret.obj]
    /\ (ret.method = "show_training_info" /\ ret.exc /= NoExc)
          => first[ret.obj] = None

\* C10 witness: show_training_info has just returned for the second time on
\* object 1, after a call on object 2, a different training.
C10_Witness ==
    /\ DOMAIN objs = 1..NObj
    /\ nshow[1] >= 2
    /\ nshow[2] >= 1
    /\ objs[1] /= objs[2]
    /\ ret.method = "show_training_info"
    /\ ret.obj = 1
    /\ ret.exc = NoExc
    /\ ret.value = first[1]
    /\ infos[2] /= None

====
